---- MODULE Spec2Model ----
(***************************************************************************)
(* Model of the generation session manager of src/main.py: the per-persona *)
(* lock and flag, the streaming accumulation, the rate-limited placeholder *)
(* revisions, the final chunked delivery and the conversation memory with  *)
(* its lazy expiry.  One action per resumption of a coroutine: an action   *)
(* completes the await the coroutine is parked on and runs the code up to  *)
(* the next await.                                                         *)
(*                                                                         *)
(* Strings.  A text is modelled by the sequence of the lengths of its      *)
(* newline-delimited paragraphs (text.split("\n")), all characters other   *)
(* than the newline being one non-blank symbol: "" is <<0>>, "ab\n\nc" is  *)
(* <<2,0,1>>.  Lengths, concatenation, slicing and splitting on newlines   *)
(* are exact under this encoding.                                          *)
(***************************************************************************)
EXTENDS Integers, Sequences, FiniteSets, TLC

\* ---------------------------------------------------------------- bounds
MaxCalls == 2
MaxTicks == 1
MaxTokens == 1

Tasks == {1, 2}
SoloTasks == {1}
Users == {1, 2}
Characters == {"sage", "bard"}
Keys == Users \X Characters
Messages == {<<5>>}
Tokens == {<<3>>, <<1500, 1500>>}
ShortTokens == {<<3>>}
ClockTokens == {<<0, 0>>, <<3>>}
StreamErrors == {"http_status", "decode", "transport"}

\* ------------------------------------------------------ program constants
MAX_MEMORY_TURNS == 8
MEMORY_EXPIRY_SECONDS == 60 * 60 * 24
DISCORD_MESSAGE_LIMIT == 2000
DequeMaxlen == MAX_MEMORY_TURNS * 2

VARIABLES
  conversation_memory,  \* dict: key -> reference to a deque object
  heap,                 \* the deque objects: reference -> sequence of turns
  last_activity,        \* dict: key -> timestamp
  ongoing_generation,   \* persona -> BOOLEAN
  user_locks,           \* persona -> [owner, waiters]
  presence,             \* the bot's presence indicator
  now,                  \* time.time()
  ticks,                \* number of clock advances so far
  ncalls,               \* number of handle_character calls started so far
  pc,                   \* per call slot: the await the coroutine is parked on
  local                 \* per call slot: the coroutine's frame, see NoFrame

vars == <<conversation_memory, heap, last_activity, ongoing_generation,
          user_locks, presence, now, ticks, ncalls, pc, local>>

\* ------------------------------------------------------------ dictionaries
NoRef == 0
NoTask == 0

Put(d, k, v) == [x \in (DOMAIN d) \cup {k} |-> IF x = k THEN v ELSE d[x]]
Pop(d, ks) == [x \in (DOMAIN d) \ ks |-> d[x]]
Values(d) == {d[x] : x \in DOMAIN d}

\* ------------------------------------------------------------------- text
RECURSIVE SumSeq(_)
SumSeq(s) == IF s = <<>> THEN 0 ELSE Head(s) + SumSeq(Tail(s))

EmptyText == <<0>>
TextLen(t) == SumSeq(t) + Len(t) - 1
\* a + b
Concat(a, b) ==
  SubSeq(a, 1, Len(a) - 1) \o <<a[Len(a)] + b[1]>> \o Tail(b)
\* a + "\n" + b
JoinLine(a, b) == a \o b
\* not text.strip(): nothing but newlines
IsBlank(t) == \A i \in 1..Len(t) : t[i] = 0

RECURSIVE DropFront(_, _)
DropFront(t, k) ==
  IF k = 0 THEN t
  ELSE IF t[1] >= k THEN <<t[1] - k>> \o Tail(t)
  ELSE DropFront(Tail(t), k - t[1] - 1)
\* text[-n:]
TailWindow(t, n) == IF TextLen(t) <= n THEN t ELSE DropFront(t, TextLen(t) - n)

RECURSIVE SplitLoop(_, _, _, _)
SplitLoop(paragraphs, i, chunks, current) ==
  IF i > Len(paragraphs) THEN [chunks |-> chunks, current |-> current]
  ELSE LET paragraph == <<paragraphs[i]>> IN
    IF TextLen(current) + TextLen(paragraph) + 1 > DISCORD_MESSAGE_LIMIT
    THEN SplitLoop(paragraphs, i + 1, Append(chunks, current), paragraph)
    ELSE SplitLoop(paragraphs, i + 1, chunks,
                   IF current # EmptyText THEN JoinLine(current, paragraph)
                   ELSE Concat(current, paragraph))

split_message(text) ==
  IF TextLen(text) <= DISCORD_MESSAGE_LIMIT THEN <<text>>
  ELSE LET r == SplitLoop(text, 1, <<>>, EmptyText) IN
    IF r.current # EmptyText THEN Append(r.chunks, r.current) ELSE r.chunks

\* ------------------------------------------------------- message contents
Notice(kind) == [kind |-> kind, detail |-> "", text |-> EmptyText]
STARTING_MESSAGE == Notice("STARTING_MESSAGE")
THINKING_MESSAGE == Notice("THINKING_MESSAGE")
NotFoundNotice == Notice("character_not_found")
NoOutputNotice == Notice("no_output")
ErrorNotice(e) == [kind |-> "ollama_error", detail |-> e, text |-> EmptyText]
Reply(text) == [kind |-> "reply", detail |-> "", text |-> text]
NoMessage == Notice("none")

Turn(role, content) == [role |-> role, content |-> content]

\* --------------------------------------------------------- deque objects
\* DequeAppend on a deque made without maxlen
DequeAppendUnbounded(d, x) == Append(d, x)

\* deque.append on a deque(maxlen=MAX_MEMORY_TURNS * 2)
DequeAppend(d, x) ==
  LET s == Append(d, x) IN IF Len(s) > DequeMaxlen THEN Tail(s) ELSE s

\* the objects still referenced by the dict or by a running call's local
GC(cm, lc, hp) ==
  [r \in (DOMAIN hp) \cap (Values(cm) \cup {lc[t].memory : t \in Tasks}) |-> hp[r]]
NewRef(hp) ==
  CHOOSE n \in 1..(Cardinality(DOMAIN hp) + 1) :
    n \notin DOMAIN hp /\ \A m \in 1..(n - 1) : m \in DOMAIN hp

\* cleanup_expired_memory with >= for >: a key exactly MEMORY_EXPIRY_SECONDS
\* old is removed too
cleanup_expired_memory_eager(cm, la, t_now) ==
  LET expired == {k \in DOMAIN la : t_now - la[k] >= MEMORY_EXPIRY_SECONDS}
  IN [cm |-> Pop(cm, expired), la |-> Pop(la, expired), expired |-> expired]

cleanup_expired_memory(cm, la, t_now) ==
  LET expired == {k \in DOMAIN la : t_now - la[k] > MEMORY_EXPIRY_SECONDS}
  IN [cm |-> Pop(cm, expired), la |-> Pop(la, expired), expired |-> expired]

\* the turns stored for a key (none when the key is absent)
TurnsOf(cm, hp, k) == IF k \in DOMAIN cm THEN hp[cm[k]] ELSE <<>>

\* clear_memory_prefix / clear_memory_slash, up to the reply
keys_to_remove(cm, user_id) == {k \in DOMAIN cm : k[1] = user_id}
characters_cleared(cm, user_id) == Cardinality(keys_to_remove(cm, user_id))

\* ------------------------------------------------------------------ locks
FreeLock == [owner |-> NoTask, waiters |-> <<>>]
\* Release that leaves the lock with the call that exits
ReleaseNothing(locks, c, t) == locks

Release(locks, c, t) ==
  IF locks[c].owner = t THEN [locks EXCEPT ![c].owner = NoTask] ELSE locks

\* Admit with the gate on the wrong key: every call finds its lock free and
\* its flag clear
AdmitUngated(t, c, locks, og) ==
  [pc |-> "presence_online", og |-> [og EXCEPT ![c] = TRUE], outcome |-> "none",
   locks |-> [locks EXCEPT ![c].owner = t]]

\* Admit with one flag for the whole bot: busy when any persona generates
AdmitAnyBusy(t, c, locks, og) ==
  IF locks[c].owner # NoTask \/ (locks[c].waiters # <<>> /\ Head(locks[c].waiters) # t)
  THEN [pc |-> "wait_lock", og |-> og, outcome |-> "none",
        locks |-> [locks EXCEPT ![c].waiters = Append(@, t)]]
  ELSE LET held == [locks EXCEPT ![c] =
                      [owner |-> t,
                       waiters |-> IF @.waiters # <<>> THEN Tail(@.waiters) ELSE <<>>]]
       IN IF \E p \in Characters : og[p]
          THEN [pc |-> "send_busy", og |-> og, outcome |-> "busy", locks |-> held]
          ELSE [pc |-> "presence_online", og |-> [og EXCEPT ![c] = TRUE],
                outcome |-> "none", locks |-> held]

\* lines 172-177: async with user_locks[character], the flag test and set
Admit(t, c, locks, og) ==
  IF locks[c].owner # NoTask \/ (locks[c].waiters # <<>> /\ Head(locks[c].waiters) # t)
  THEN [pc |-> "wait_lock", og |-> og, outcome |-> "none",
        locks |-> [locks EXCEPT ![c].waiters = Append(@, t)]]
  ELSE LET held == [locks EXCEPT ![c] =
                      [owner |-> t,
                       waiters |-> IF @.waiters # <<>> THEN Tail(@.waiters) ELSE <<>>]]
       IN IF og[c]
          THEN [pc |-> "send_busy", og |-> og, outcome |-> "busy", locks |-> held]
          ELSE [pc |-> "presence_online", og |-> [og EXCEPT ![c] = TRUE],
                outcome |-> "none", locks |-> held]

AnyOngoing(og) == \E c \in Characters : og[c]

\* --------------------------------------------------------- stream decoder
\* The response body is a sequence of bytes.  A byte is one of: "nl" (the
\* newline), "sp" (a blank), "a" (an ASCII letter), "hi" and "lo" (the two
\* bytes of one two-byte UTF-8 character), and the JSON syntax in three
\* indivisible pieces: "obj" (an object), "done" (its member "done": true)
\* and "msg" (its member "message": {"content": ...}, followed by the
\* characters of the content).
MaxEvents == 3

\* chunk.decode("utf-8") fails on a chunk that ends inside a character or
\* starts inside one
RECURSIVE Utf8Valid(_)
Utf8Valid(bytes) ==
  IF bytes = <<>> THEN TRUE
  ELSE IF bytes[1] = "hi"
       THEN Len(bytes) >= 2 /\ bytes[2] = "lo" /\ Utf8Valid(Tail(Tail(bytes)))
       ELSE bytes[1] # "lo" /\ Utf8Valid(Tail(bytes))
\* chunk.decode("utf-8") on a valid chunk: "hi", "lo" is the character "e'"
RECURSIVE Utf8Decode(_)
Utf8Decode(bytes) ==
  IF bytes = <<>> THEN <<>>
  ELSE IF bytes[1] = "hi" THEN <<"e'">> \o Utf8Decode(Tail(Tail(bytes)))
       ELSE <<bytes[1]>> \o Utf8Decode(Tail(bytes))

\* line.strip()
RECURSIVE Strip(_)
Strip(line) ==
  IF line = <<>> THEN line
  ELSE IF Head(line) = "sp" THEN Strip(Tail(line))
  ELSE IF line[Len(line)] = "sp" THEN Strip(SubSeq(line, 1, Len(line) - 1))
  ELSE line

IsContent(chars) == \A i \in 1..Len(chars) : chars[i] \in {"a", "e'", "sp"}
\* json.loads(line) and the tests of lines 143 and 146
json_loads(line) ==
  LET bad == [ok |-> FALSE, done |-> FALSE, has_content |-> FALSE, content |-> <<>>]
      obj(d, h, c) == [ok |-> TRUE, done |-> d, has_content |-> h, content |-> c]
  IN IF line = <<>> \/ Head(line) # "obj" THEN bad
     ELSE LET members == Tail(line)
              d == members # <<>> /\ Head(members) = "done"
              after == IF d THEN Tail(members) ELSE members
          IN IF after = <<>> THEN obj(d, FALSE, <<>>)
             ELSE IF Head(after) = "msg" /\ IsContent(Tail(after))
                  THEN obj(d, TRUE, Tail(after))
                  ELSE bad

\* buffer.split("\n", 1)
NewlineAt(buffer) ==
  IF \E i \in 1..Len(buffer) : buffer[i] = "nl"
  THEN CHOOSE i \in 1..Len(buffer) :
         buffer[i] = "nl" /\ \A j \in 1..(i - 1) : buffer[j] # "nl"
  ELSE 0

\* lines 135-147: the generator runs the while loop on its buffer until it
\* yields, returns, raises, or finds no newline and awaits the next chunk
RECURSIVE Drain(_)
Drain(buffer) ==
  LET n == NewlineAt(buffer) IN
  IF n = 0 THEN [kind |-> "more", token |-> <<>>, buffer |-> buffer]
  ELSE LET line == Strip(SubSeq(buffer, 1, n - 1))
           after == SubSeq(buffer, n + 1, Len(buffer))
           data == json_loads(line)
       IN IF line = <<>> THEN Drain(after)
          ELSE IF ~data.ok THEN [kind |-> "raise", token |-> <<>>, buffer |-> after]
          ELSE IF data.done THEN [kind |-> "return", token |-> <<>>, buffer |-> after]
          ELSE IF data.has_content
               THEN [kind |-> "yield", token |-> data.content, buffer |-> after]
               ELSE Drain(after)

\* the text of a content fragment (one paragraph, no newline)
FragmentText(chars) == <<Len(chars)>>

\* the lines a backend sends, and the response bodies made of up to
\* MaxEvents of them
EventLines ==
  {<<"obj", "msg", "a">>, <<"obj", "msg", "hi", "lo">>, <<"obj", "done">>,
   <<"obj", "done", "msg", "a">>, <<"obj">>, <<"a">>, <<"sp">>}
RECURSIVE Body(_)
Body(lines) ==
  IF lines = <<>> THEN <<>> ELSE Head(lines) \o <<"nl">> \o Body(Tail(lines))
Bodies == {Body(ls) : ls \in UNION {[1..n -> EventLines] : n \in 0..MaxEvents}}
IsPrefix(a, b) == Len(a) <= Len(b) /\ SubSeq(b, 1, Len(a)) = a

\* ------------------------------------------------------------------ frames
\* The frame of one handle_character call: its arguments and locals, the
\* branch it took (outcome), and the transport calls it has completed (sent).
NoFrame ==
  [user_id |-> 0, character |-> "", message |-> EmptyText,
   expired |-> {},              \* line 84: the keys the call's sweep removed
   turns_before |-> <<>>,       \* history: the key's turns when the call was made
   memory |-> NoRef,            \* line 183: the deque reference
   messages |-> <<>>,           \* line 185: the prior turns copied into messages
   full_reply |-> EmptyText,    \* line 188
   ntokens |-> 0,               \* increments received from the stream
   parts |-> <<>>,              \* line 222
   part_i |-> 0,                \* line 225: position in parts[1:]
   thinking_msg |-> NoMessage,  \* line 179: content of the placeholder message
   error |-> "",                \* line 202: the exception caught
   outcome |-> "none",
   sent |-> <<>>,
   wire |-> <<>>,               \* history: the bytes read from the response
   buffer |-> <<>>,             \* line 121: stream_ollama's buffer
   yielded |-> <<>>]            \* history: the fragments stream_ollama yielded

key(f) == <<f.user_id, f.character>>
Logged(f, op, content) == Append(f.sent, [op |-> op, content |-> content])

\* ------------------------------------------------------------------- Init
Init ==
  /\ conversation_memory = <<>>
  /\ heap = <<>>
  /\ last_activity = <<>>
  /\ ongoing_generation = [c \in Characters |-> FALSE]
  /\ user_locks = [c \in Characters |-> FreeLock]
  /\ presence = "idle"
  /\ now = 0
  /\ ticks = 0
  /\ ncalls = 0
  /\ pc = [t \in Tasks |-> "idle"]
  /\ local = [t \in Tasks |-> NoFrame]

\* ---------------------------------------------------------------- helpers
Goto(t, label) == pc' = [pc EXCEPT ![t] = label]
Resting == {"idle", "done", "raised"}

\* what is left of a call that has returned or raised: the messages it put
\* on the channel
Gone(f) == [NoFrame EXCEPT !.thinking_msg = f.thinking_msg, !.sent = f.sent]

\* the call returns or raises: the async-with releases the lock if it is
\* held, and the frame with its locals is gone
Exit(t, label, f) ==
  /\ Goto(t, label)
  /\ user_locks' = Release(user_locks, f.character, t)
  /\ local' = [local EXCEPT ![t] = Gone(f)]
  /\ heap' = GC(conversation_memory, local', heap)

\* a transport call of call t fails and the exception leaves the handler
Raise(t) ==
  /\ Exit(t, "raised", local[t])
  /\ UNCHANGED <<conversation_memory, last_activity, ongoing_generation,
                 presence, now, ticks, ncalls>>

\* call t goes on to the next await with frame f
Continue(t, label, f) ==
  /\ Goto(t, label)
  /\ local' = [local EXCEPT ![t] = f]

\* lines 204-207, 214-217, 228-230: clear the flag, then either await the
\* presence change or return
ClearFlag(t, f) ==
  LET og == [ongoing_generation EXCEPT ![f.character] = FALSE] IN
  /\ ongoing_generation' = og
  /\ IF ~AnyOngoing(og)
     THEN Continue(t, "presence_idle", f) /\ UNCHANGED <<user_locks, heap>>
     ELSE Exit(t, "done", f)

\* ---------------------------------------------------------------- actions
\* lines 159-177: a command handler calls handle_character; runs to the first
\* await.  `found` is os.path.isfile on the persona's prompt file.
Invoke(t, u, c, m, found) ==
  /\ pc[t] \in Resting
  /\ \A t2 \in Tasks : t2 < t => pc[t2] \notin Resting
  /\ ncalls < MaxCalls
  /\ ncalls' = ncalls + 1
  /\ LET swept == cleanup_expired_memory(conversation_memory, last_activity, now)
         adm == Admit(t, c, user_locks, ongoing_generation)
         f == [NoFrame EXCEPT !.user_id = u, !.character = c, !.message = m,
                              !.expired = swept.expired,
                              !.turns_before =
                                 TurnsOf(conversation_memory, heap, <<u, c>>)]
     IN /\ conversation_memory' = swept.cm
        /\ last_activity' = Put(swept.la, <<u, c>>, now)
        /\ heap' = GC(swept.cm, local, heap)
        /\ IF found
           THEN /\ Continue(t, adm.pc, [f EXCEPT !.outcome = adm.outcome])
                /\ user_locks' = adm.locks
                /\ ongoing_generation' = adm.og
           ELSE /\ Continue(t, "send_not_found", [f EXCEPT !.outcome = "not_found"])
                /\ UNCHANGED <<user_locks, ongoing_generation>>
  /\ UNCHANGED <<presence, now, ticks>>

\* line 172: a waiter is handed the released lock and runs lines 173-177
LockAcquired(t) ==
  /\ pc[t] = "wait_lock"
  /\ user_locks[local[t].character].owner = NoTask
  /\ Head(user_locks[local[t].character].waiters) = t
  /\ LET adm == Admit(t, local[t].character, user_locks, ongoing_generation)
     IN /\ Continue(t, adm.pc, [local[t] EXCEPT !.outcome = adm.outcome])
        /\ user_locks' = adm.locks
        /\ ongoing_generation' = adm.og
  /\ UNCHANGED <<conversation_memory, heap, last_activity, presence, now,
                 ticks, ncalls>>

\* SendNotFound that signals the busy presence with its notice
SendNotFoundSignalsBusy(t, ok) ==
  /\ pc[t] = "send_not_found"
  /\ IF ok
     THEN /\ Exit(t, "done", [local[t] EXCEPT
                             !.sent = Logged(local[t], "send", NotFoundNotice)])
          /\ presence' = "online"
          /\ UNCHANGED <<conversation_memory, last_activity, ongoing_generation,
                         now, ticks, ncalls>>
     ELSE Raise(t)

\* line 167: await send_func(str(e)); return
SendNotFound(t, ok) ==
  /\ pc[t] = "send_not_found"
  /\ IF ok
     THEN /\ Exit(t, "done", [local[t] EXCEPT
                             !.sent = Logged(local[t], "send", NotFoundNotice)])
          /\ UNCHANGED <<conversation_memory, last_activity, ongoing_generation,
                         presence, now, ticks, ncalls>>
     ELSE Raise(t)

\* SendBusy that also resets the persona's flag
SendBusyResetsFlag(t, ok) ==
  /\ pc[t] = "send_busy"
  /\ IF ok
     THEN /\ Exit(t, "done", [local[t] EXCEPT
                             !.sent = Logged(local[t], "send", THINKING_MESSAGE)])
          /\ ongoing_generation' =
               [ongoing_generation EXCEPT ![local[t].character] = FALSE]
          /\ UNCHANGED <<conversation_memory, last_activity,
                         presence, now, ticks, ncalls>>
     ELSE Raise(t)

\* line 174: await send_func(THINKING_MESSAGE); return
SendBusy(t, ok) ==
  /\ pc[t] = "send_busy"
  /\ IF ok
     THEN /\ Exit(t, "done", [local[t] EXCEPT
                             !.sent = Logged(local[t], "send", THINKING_MESSAGE)])
          /\ UNCHANGED <<conversation_memory, last_activity, ongoing_generation,
                         presence, now, ticks, ncalls>>
     ELSE Raise(t)

\* line 178: await bot.change_presence(status=online)
PresenceOnline(t, ok) ==
  /\ pc[t] = "presence_online"
  /\ IF ok
     THEN /\ presence' = "online"
          /\ Continue(t, "send_start", local[t])
          /\ UNCHANGED <<conversation_memory, heap, last_activity,
                         ongoing_generation, user_locks, now, ticks, ncalls>>
     ELSE Raise(t)

\* line 179: thinking_msg = await send_func(STARTING_MESSAGE)
SendStart(t, ok) ==
  /\ pc[t] = "send_start"
  /\ IF ok
     THEN /\ Continue(t, "fetch_user",
                      [local[t] EXCEPT !.thinking_msg = STARTING_MESSAGE,
                                       !.sent = Logged(local[t], "send", STARTING_MESSAGE)])
          /\ UNCHANGED <<conversation_memory, heap, last_activity,
                         ongoing_generation, user_locks, presence, now, ticks,
                         ncalls>>
     ELSE Raise(t)

\* lines 181-192: user = await bot.fetch_user(...); memory =
\* conversation_memory[key] (the defaultdict creates a missing deque);
\* messages.extend(memory); the stream is opened
FetchUser(t, ok) ==
  /\ pc[t] = "fetch_user"
  /\ IF ok
     THEN LET k == key(local[t])
              fresh == k \notin DOMAIN conversation_memory
              ref == IF fresh THEN NewRef(heap) ELSE conversation_memory[k]
          IN /\ conversation_memory' = Put(conversation_memory, k, ref)
             /\ heap' = IF fresh THEN Put(heap, ref, <<>>) ELSE heap
             /\ Continue(t, "stream",
                         [local[t] EXCEPT !.memory = ref, !.messages = heap'[ref]])
             /\ UNCHANGED <<last_activity, ongoing_generation, user_locks,
                            presence, now, ticks, ncalls>>
     ELSE Raise(t)

\* lines 219-220: memory.append(user turn); memory.append(assistant turn)
Commit(d, m, reply) ==
  DequeAppend(DequeAppend(d, Turn("user", m)), Turn("assistant", reply))

\* rest with the slice off by one: parts[0:]
rest_from_first(ps) == ps

\* line 225: parts[1:]
rest(ps) == Tail(ps)

shared == <<conversation_memory, heap, last_activity, ongoing_generation,
            user_locks, presence, now, ticks, ncalls>>

\* lines 192-195: the stream yields an increment; `elapsed` is
\* time.monotonic() - last_edit > 0.6
StreamToken(t, token, elapsed) ==
  /\ pc[t] = "stream"
  /\ local[t].ntokens < MaxTokens
  /\ Continue(t, IF elapsed THEN "edit_progress" ELSE "stream",
              [local[t] EXCEPT !.ntokens = @ + 1,
                               !.full_reply = Concat(@, token)])
  /\ UNCHANGED shared

\* lines 196-200: the rate-limited revision of the placeholder; a failure is
\* caught by the except clause of line 202
EditProgress(t, ok) ==
  /\ pc[t] = "edit_progress"
  /\ IF ok
     THEN LET content == Reply(TailWindow(local[t].full_reply, DISCORD_MESSAGE_LIMIT))
          IN Continue(t, "stream",
                      [local[t] EXCEPT !.thinking_msg = content,
                                       !.sent = Logged(local[t], "edit", content)])
     ELSE Continue(t, "edit_error",
                   [local[t] EXCEPT !.error = "edit_failed", !.outcome = "error"])
  /\ UNCHANGED shared

\* lines 129-141, 202: the stream raises (HTTP status before any increment,
\* an unparseable line, a transport error)
StreamFail(t, e) ==
  /\ pc[t] = "stream"
  /\ e = "http_status" => local[t].ntokens = 0
  /\ Continue(t, "edit_error", [local[t] EXCEPT !.error = e, !.outcome = "error"])
  /\ UNCHANGED shared

\* EndOfStream with the two appends moved above the blank test
EndOfStreamCommitFirst(f, d) ==
  IF IsBlank(f.full_reply)
  THEN [label |-> "edit_empty", deque |-> Commit(d, f.message, f.full_reply),
        frame |-> [f EXCEPT !.outcome = "empty"]]
  ELSE [label |-> "edit_final", deque |-> Commit(d, f.message, f.full_reply),
        frame |-> [f EXCEPT !.outcome = "success",
                            !.parts = split_message(f.full_reply)]]

\* lines 209-222 on frame f and deque d: blank test, commit, split
EndOfStream(f, d) ==
  IF IsBlank(f.full_reply)
  THEN [label |-> "edit_empty", deque |-> d, frame |-> [f EXCEPT !.outcome = "empty"]]
  ELSE [label |-> "edit_final", deque |-> Commit(d, f.message, f.full_reply),
        frame |-> [f EXCEPT !.outcome = "success",
                            !.parts = split_message(f.full_reply)]]

\* lines 209-222: the stream ends
StreamEnd(t) ==
  /\ pc[t] = "stream"
  /\ LET r == EndOfStream(local[t], heap[local[t].memory]) IN
       /\ heap' = [heap EXCEPT ![local[t].memory] = r.deque]
       /\ Continue(t, r.label, r.frame)
  /\ UNCHANGED <<conversation_memory, last_activity, ongoing_generation,
                 user_locks, presence, now, ticks, ncalls>>

unchangedByExit == <<conversation_memory, last_activity, presence, now, ticks,
                     ncalls>>

\* lines 203-207: report the failure on the placeholder, clear the flag
EditError(t, ok) ==
  /\ pc[t] = "edit_error"
  /\ IF ok
     THEN /\ ClearFlag(t, [local[t] EXCEPT
                             !.thinking_msg = ErrorNotice(local[t].error),
                             !.sent = Logged(local[t], "edit", ErrorNotice(local[t].error))])
          /\ UNCHANGED unchangedByExit
     ELSE Raise(t)

\* lines 210-217: report the empty result on the placeholder, clear the flag
EditEmpty(t, ok) ==
  /\ pc[t] = "edit_empty"
  /\ IF ok
     THEN /\ ClearFlag(t, [local[t] EXCEPT
                             !.thinking_msg = NoOutputNotice,
                             !.sent = Logged(local[t], "edit", NoOutputNotice)])
          /\ UNCHANGED unchangedByExit
     ELSE Raise(t)

\* line 224: await edit_func(thinking_msg, parts[0])
EditFinal(t, ok) ==
  /\ pc[t] = "edit_final"
  /\ IF ok
     THEN LET content == Reply(local[t].parts[1])
              f == [local[t] EXCEPT !.thinking_msg = content,
                                    !.sent = Logged(local[t], "edit", content)]
          IN /\ IF rest(f.parts) # <<>>
                THEN /\ Continue(t, "send_part", [f EXCEPT !.part_i = 1])
                     /\ UNCHANGED <<ongoing_generation, user_locks, heap>>
                ELSE ClearFlag(t, f)
             /\ UNCHANGED unchangedByExit
     ELSE Raise(t)

\* lines 225-226: for part in parts[1:]: await send_func(part)
SendPart(t, ok) ==
  /\ pc[t] = "send_part"
  /\ IF ok
     THEN LET content == Reply(rest(local[t].parts)[local[t].part_i])
              f == [local[t] EXCEPT !.sent = Logged(local[t], "send", content)]
          IN /\ IF f.part_i < Len(rest(f.parts))
                THEN /\ Continue(t, "send_part", [f EXCEPT !.part_i = @ + 1])
                     /\ UNCHANGED <<ongoing_generation, user_locks, heap>>
                ELSE ClearFlag(t, f)
             /\ UNCHANGED unchangedByExit
     ELSE Raise(t)

\* lines 206, 216, 230: await bot.change_presence(status=idle)
PresenceIdle(t, ok) ==
  /\ pc[t] = "presence_idle"
  /\ IF ok
     THEN /\ presence' = "idle"
          /\ Exit(t, "done", local[t])
          /\ UNCHANGED <<conversation_memory, last_activity, ongoing_generation,
                         now, ticks, ncalls>>
     ELSE Raise(t)

\* lines 260-267 and 275-282: the clearmemory commands, up to the reply
ClearMemory(user_id) ==
  LET ks == keys_to_remove(conversation_memory, user_id) IN
  /\ conversation_memory' = Pop(conversation_memory, ks)
  /\ last_activity' = Pop(last_activity, ks)
  /\ heap' = GC(conversation_memory', local, heap)
  /\ UNCHANGED <<ongoing_generation, user_locks, presence, now, ticks, ncalls,
                 pc, local>>

clear_memory_prefix(user_id) == ClearMemory(user_id)
clear_memory_slash(user_id) == ClearMemory(user_id)

\* time.time() advances
Tick(d) ==
  /\ ticks < MaxTicks
  /\ ticks' = ticks + 1
  /\ now' = now + d
  /\ UNCHANGED <<conversation_memory, heap, last_activity, ongoing_generation,
                 user_locks, presence, ncalls, pc, local>>

\* lines 132-133: iter_any() delivers the next chunk of the response body and
\* the generator decodes it into its buffer; a chunk that is not valid UTF-8
\* by itself raises UnicodeDecodeError, caught at line 202
ReadChunk(t, chunk) ==
  /\ pc[t] = "stream"
  /\ Drain(local[t].buffer).kind = "more"
  /\ chunk # <<>>
  /\ IF Utf8Valid(chunk)
     THEN Continue(t, "stream",
                   [local[t] EXCEPT !.wire = @ \o chunk,
                                    !.buffer = Drain(@).buffer \o Utf8Decode(chunk)])
     ELSE Continue(t, "edit_error",
                   [local[t] EXCEPT !.wire = @ \o chunk,
                                    !.error = "unicode_decode", !.outcome = "error"])
  /\ UNCHANGED shared

\* lines 146-147 and 193-195: the generator yields the content of the next
\* event in its buffer and the handler accumulates it
YieldToken(t, elapsed) ==
  /\ pc[t] = "stream"
  /\ Drain(local[t].buffer).kind = "yield"
  /\ LET d == Drain(local[t].buffer) IN
       Continue(t, IF elapsed THEN "edit_progress" ELSE "stream",
                [local[t] EXCEPT !.buffer = d.buffer,
                                 !.yielded = Append(@, d.token),
                                 !.ntokens = @ + 1,
                                 !.full_reply = Concat(@, FragmentText(d.token))])
  /\ UNCHANGED shared

\* lines 143-144: the next event in the buffer has "done" set; the generator
\* returns and the async for of line 192 ends
StreamDone(t) == Drain(local[t].buffer).kind = "return" /\ StreamEnd(t)
\* line 132: the response body is exhausted; the generator ends
StreamExhausted(t) ==
  /\ Drain(local[t].buffer).kind = "more"
  /\ local[t].wire \in Bodies
  /\ StreamEnd(t)
\* line 141: json.loads raises on the next line in the buffer
StreamDecodeError(t) ==
  Drain(local[t].buffer).kind = "raise" /\ StreamFail(t, "decode")

\* Two calls side by side, short replies, no clock.
Next ==
  \/ \E t \in Tasks, u \in Users, c \in Characters, m \in Messages,
        found \in BOOLEAN : Invoke(t, u, c, m, found)
  \/ \E t \in Tasks : LockAcquired(t)
  \/ \E t \in Tasks, ok \in BOOLEAN : SendNotFound(t, ok)
  \/ \E t \in Tasks, ok \in BOOLEAN : SendBusy(t, ok)
  \/ \E t \in Tasks, ok \in BOOLEAN : PresenceOnline(t, ok)
  \/ \E t \in Tasks, ok \in BOOLEAN : SendStart(t, ok)
  \/ \E t \in Tasks, ok \in BOOLEAN : FetchUser(t, ok)
  \/ \E t \in Tasks, token \in ShortTokens, elapsed \in BOOLEAN :
        local[t].full_reply = EmptyText /\ StreamToken(t, token, elapsed)
  \/ \E t \in Tasks, ok \in BOOLEAN : EditProgress(t, ok)
  \/ \E t \in Tasks, e \in {"transport"} : StreamFail(t, e)
  \/ \E t \in Tasks : StreamEnd(t)
  \/ \E t \in Tasks, ok \in BOOLEAN : EditError(t, ok)
  \/ \E t \in Tasks, ok \in BOOLEAN : EditEmpty(t, ok)
  \/ \E t \in Tasks, ok \in BOOLEAN : EditFinal(t, ok)
  \/ \E t \in Tasks, ok \in BOOLEAN : PresenceIdle(t, ok)
  \/ \E u \in Users : clear_memory_prefix(u)
  \/ \E u \in Users : clear_memory_slash(u)

Spec == Init /\ [][Next]_vars

\* One call at a time with the clock: expiry, failures and blank replies.
\* One increment per generation.
NextClock ==
  \/ \E t \in SoloTasks, u \in Users, c \in Characters, m \in Messages,
        found \in BOOLEAN : Invoke(t, u, c, m, found)
  \/ \E t \in SoloTasks, ok \in BOOLEAN : SendNotFound(t, ok)
  \/ \E t \in SoloTasks, ok \in BOOLEAN : SendBusy(t, ok)
  \/ \E t \in SoloTasks, ok \in BOOLEAN : PresenceOnline(t, ok)
  \/ \E t \in SoloTasks, ok \in BOOLEAN : SendStart(t, ok)
  \/ \E t \in SoloTasks, ok \in BOOLEAN : FetchUser(t, ok)
  \/ \E t \in SoloTasks, token \in ClockTokens, elapsed \in BOOLEAN :
        local[t].full_reply = EmptyText /\ StreamToken(t, token, elapsed)
  \/ \E t \in SoloTasks, ok \in BOOLEAN : EditProgress(t, ok)
  \/ \E t \in SoloTasks, e \in StreamErrors : StreamFail(t, e)
  \/ \E t \in SoloTasks : StreamEnd(t)
  \/ \E t \in SoloTasks, ok \in BOOLEAN : EditError(t, ok)
  \/ \E t \in SoloTasks, ok \in BOOLEAN : EditEmpty(t, ok)
  \/ \E t \in SoloTasks, ok \in BOOLEAN : EditFinal(t, ok)
  \/ \E t \in SoloTasks, ok \in BOOLEAN : PresenceIdle(t, ok)
  \/ \E u \in Users : clear_memory_prefix(u)
  \/ \E u \in Users : clear_memory_slash(u)
  \/ \E d \in {MEMORY_EXPIRY_SECONDS, MEMORY_EXPIRY_SECONDS + 1} : Tick(d)

SpecClock == Init /\ [][NextClock]_vars

\* One call at a time, long replies built from several increments: the
\* progressive revisions and the chunked delivery.
NextSolo ==
  \/ \E t \in SoloTasks, u \in Users, c \in Characters, m \in Messages,
        found \in BOOLEAN : Invoke(t, u, c, m, found)
  \/ \E t \in SoloTasks, ok \in BOOLEAN : SendNotFound(t, ok)
  \/ \E t \in SoloTasks, ok \in BOOLEAN : SendBusy(t, ok)
  \/ \E t \in SoloTasks, ok \in BOOLEAN : PresenceOnline(t, ok)
  \/ \E t \in SoloTasks, ok \in BOOLEAN : SendStart(t, ok)
  \/ \E t \in SoloTasks, ok \in BOOLEAN : FetchUser(t, ok)
  \/ \E t \in SoloTasks, token \in Tokens, elapsed \in BOOLEAN :
        StreamToken(t, token, elapsed)
  \/ \E t \in SoloTasks, ok \in BOOLEAN : EditProgress(t, ok)
  \/ \E t \in SoloTasks, e \in {"decode"} : StreamFail(t, e)
  \/ \E t \in SoloTasks : StreamEnd(t)
  \/ \E t \in SoloTasks, ok \in BOOLEAN : EditError(t, ok)
  \/ \E t \in SoloTasks, ok \in BOOLEAN : EditEmpty(t, ok)
  \/ \E t \in SoloTasks, ok \in BOOLEAN : EditFinal(t, ok)
  \/ \E t \in SoloTasks, ok \in BOOLEAN : SendPart(t, ok)
  \/ \E t \in SoloTasks, ok \in BOOLEAN : PresenceIdle(t, ok)

SpecSolo == Init /\ [][NextSolo]_vars

\* A key that already holds MAX_MEMORY_TURNS - 1 or MAX_MEMORY_TURNS turn
\* pairs (turn i of the history has content <<i>>), then one call at a time
\* with one increment per generation: the bound of the deques.
RECURSIVE History(_)
History(n) ==
  IF n = 0 THEN <<>>
  ELSE History(n - 1) \o <<Turn("user", <<n>>), Turn("assistant", <<n>>)>>

InitMem ==
  /\ \E n \in {MAX_MEMORY_TURNS - 1, MAX_MEMORY_TURNS} : heap = <<History(n)>>
  /\ conversation_memory = [k \in {<<1, "sage">>} |-> 1]
  /\ last_activity = [k \in {<<1, "sage">>} |-> 0]
  /\ ongoing_generation = [c \in Characters |-> FALSE]
  /\ user_locks = [c \in Characters |-> FreeLock]
  /\ presence = "idle"
  /\ now = 0
  /\ ticks = 0
  /\ ncalls = 0
  /\ pc = [t \in Tasks |-> "idle"]
  /\ local = [t \in Tasks |-> NoFrame]

NextMem ==
  \/ \E t \in SoloTasks, u \in Users, c \in Characters, m \in Messages,
        found \in BOOLEAN : Invoke(t, u, c, m, found)
  \/ \E t \in SoloTasks, ok \in BOOLEAN : SendNotFound(t, ok)
  \/ \E t \in SoloTasks, ok \in BOOLEAN : SendBusy(t, ok)
  \/ \E t \in SoloTasks, ok \in BOOLEAN : PresenceOnline(t, ok)
  \/ \E t \in SoloTasks, ok \in BOOLEAN : SendStart(t, ok)
  \/ \E t \in SoloTasks, ok \in BOOLEAN : FetchUser(t, ok)
  \/ \E t \in SoloTasks, token \in ShortTokens, elapsed \in BOOLEAN :
        local[t].full_reply = EmptyText /\ StreamToken(t, token, elapsed)
  \/ \E t \in SoloTasks, ok \in BOOLEAN : EditProgress(t, ok)
  \/ \E t \in SoloTasks, e \in {"decode"} : StreamFail(t, e)
  \/ \E t \in SoloTasks : StreamEnd(t)
  \/ \E t \in SoloTasks, ok \in BOOLEAN : EditError(t, ok)
  \/ \E t \in SoloTasks, ok \in BOOLEAN : EditEmpty(t, ok)
  \/ \E t \in SoloTasks, ok \in BOOLEAN : EditFinal(t, ok)
  \/ \E t \in SoloTasks, ok \in BOOLEAN : PresenceIdle(t, ok)
  \/ \E u \in Users : clear_memory_prefix(u)
  \/ \E u \in Users : clear_memory_slash(u)

SpecMem == InitMem /\ [][NextMem]_vars

\* One call whose reply arrives as a single increment drawn from texts of up
\* to MaxParagraphs paragraphs: split_message on every shape of text.
MaxParagraphs == 3
ParagraphLengths ==
  {0, 1, DISCORD_MESSAGE_LIMIT \div 2 - 1, DISCORD_MESSAGE_LIMIT \div 2,
   DISCORD_MESSAGE_LIMIT, DISCORD_MESSAGE_LIMIT + 1}
SplitTexts ==
  UNION {[1..n -> ParagraphLengths] : n \in 1..MaxParagraphs}

NextSplit ==
  \/ \E t \in SoloTasks, m \in Messages :
        ncalls = 0 /\ Invoke(t, 1, "sage", m, TRUE)
  \/ \E t \in SoloTasks, ok \in BOOLEAN : PresenceOnline(t, ok)
  \/ \E t \in SoloTasks, ok \in BOOLEAN : SendStart(t, ok)
  \/ \E t \in SoloTasks, ok \in BOOLEAN : FetchUser(t, ok)
  \/ \E t \in SoloTasks, token \in SplitTexts, elapsed \in BOOLEAN :
        local[t].full_reply = EmptyText /\ StreamToken(t, token, elapsed)
  \/ \E t \in SoloTasks, ok \in BOOLEAN : EditProgress(t, ok)
  \/ \E t \in SoloTasks : StreamEnd(t)
  \/ \E t \in SoloTasks, ok \in BOOLEAN : EditError(t, ok)
  \/ \E t \in SoloTasks, ok \in BOOLEAN : EditEmpty(t, ok)
  \/ \E t \in SoloTasks, ok \in BOOLEAN : EditFinal(t, ok)
  \/ \E t \in SoloTasks, ok \in BOOLEAN : SendPart(t, ok)
  \/ \E t \in SoloTasks, ok \in BOOLEAN : PresenceIdle(t, ok)

SpecSplit == Init /\ [][NextSplit]_vars

\* One call whose stream is decoded from a response body that arrives in
\* chunks cut at arbitrary bytes.
Chunks(wire) ==
  UNION {{SubSeq(body, Len(wire) + 1, m) : m \in (Len(wire) + 1)..Len(body)} :
           body \in {b \in Bodies : IsPrefix(wire, b)}}

NextStream ==
  \/ \E t \in SoloTasks, m \in Messages :
        ncalls = 0 /\ Invoke(t, 1, "sage", m, TRUE)
  \/ \E t \in SoloTasks, ok \in BOOLEAN : PresenceOnline(t, ok)
  \/ \E t \in SoloTasks, ok \in BOOLEAN : SendStart(t, ok)
  \/ \E t \in SoloTasks, ok \in BOOLEAN : FetchUser(t, ok)
  \/ \E t \in SoloTasks : \E chunk \in Chunks(local[t].wire) : ReadChunk(t, chunk)
  \/ \E t \in SoloTasks : YieldToken(t, FALSE)
  \/ \E t \in SoloTasks : StreamDone(t)
  \/ \E t \in SoloTasks : StreamExhausted(t)
  \/ \E t \in SoloTasks : StreamDecodeError(t)
  \/ \E t \in SoloTasks, ok \in BOOLEAN : EditError(t, ok)
  \/ \E t \in SoloTasks, ok \in BOOLEAN : EditEmpty(t, ok)
  \/ \E t \in SoloTasks, ok \in BOOLEAN : EditFinal(t, ok)
  \/ \E t \in SoloTasks, ok \in BOOLEAN : PresenceIdle(t, ok)

SpecStream == Init /\ [][NextStream]_vars

\* The state left by a sage call of user 1 that raised at line 179 (flag set,
\* presence online) after one completed exchange; then calls of user 1 side
\* by side with the clock: the busy branch next to a generation in flight.
InitBusy ==
  /\ heap = <<History(1)>>
  /\ conversation_memory = [k \in {<<1, "sage">>} |-> 1]
  /\ last_activity = [k \in {<<1, "sage">>} |-> 0]
  /\ ongoing_generation = [c \in Characters |-> c = "sage"]
  /\ user_locks = [c \in Characters |-> FreeLock]
  /\ presence = "online"
  /\ now = 0
  /\ ticks = 0
  /\ ncalls = 0
  /\ pc = [t \in Tasks |-> "idle"]
  /\ local = [t \in Tasks |-> NoFrame]

NextBusy ==
  \/ \E t \in Tasks, c \in Characters, m \in Messages : Invoke(t, 1, c, m, TRUE)
  \/ \E t \in Tasks : LockAcquired(t)
  \/ \E t \in Tasks, ok \in BOOLEAN : SendBusy(t, ok)
  \/ \E t \in Tasks : PresenceOnline(t, TRUE)
  \/ \E t \in Tasks : SendStart(t, TRUE)
  \/ \E t \in Tasks : FetchUser(t, TRUE)
  \/ \E t \in Tasks, token \in ShortTokens :
        local[t].full_reply = EmptyText /\ StreamToken(t, token, FALSE)
  \/ \E t \in Tasks : local[t].full_reply # EmptyText /\ StreamEnd(t)
  \/ \E t \in Tasks : EditFinal(t, TRUE)
  \/ Tick(MEMORY_EXPIRY_SECONDS + 1)

SpecBusy == InitBusy /\ [][NextBusy]_vars

\* Two calls of one user under the scheduling of the event loop: a coroutine
\* whose await can complete is eventually resumed (every transport call
\* returns or fails, every stream ends or fails).
HandlerStep(t) ==
  \/ LockAcquired(t)
  \/ \E ok \in BOOLEAN : SendNotFound(t, ok)
  \/ \E ok \in BOOLEAN : SendBusy(t, ok)
  \/ \E ok \in BOOLEAN : PresenceOnline(t, ok)
  \/ \E ok \in BOOLEAN : SendStart(t, ok)
  \/ \E ok \in BOOLEAN : FetchUser(t, ok)
  \/ \E token \in ShortTokens, elapsed \in BOOLEAN :
        local[t].full_reply = EmptyText /\ StreamToken(t, token, elapsed)
  \/ \E ok \in BOOLEAN : EditProgress(t, ok)
  \/ StreamFail(t, "transport")
  \/ StreamEnd(t)
  \/ \E ok \in BOOLEAN : EditError(t, ok)
  \/ \E ok \in BOOLEAN : EditEmpty(t, ok)
  \/ \E ok \in BOOLEAN : EditFinal(t, ok)
  \/ \E ok \in BOOLEAN : PresenceIdle(t, ok)

NextLive ==
  \/ \E t \in Tasks, c \in Characters, m \in Messages, found \in BOOLEAN :
        Invoke(t, 1, c, m, found)
  \/ \E t \in Tasks : HandlerStep(t)

SpecLive == Init /\ [][NextLive]_vars /\ \A t \in Tasks : WF_vars(HandlerStep(t))

\* Two calls of user 1 for persona sage side by side, every transport call
\* succeeding, replies that differ, and the clearmemory commands.
PairTokens == {<<3>>, <<4>>}

NextPair ==
  \/ \E t \in Tasks, m \in Messages : Invoke(t, 1, "sage", m, TRUE)
  \/ \E t \in Tasks : LockAcquired(t)
  \/ \E t \in Tasks : PresenceOnline(t, TRUE)
  \/ \E t \in Tasks : SendStart(t, TRUE)
  \/ \E t \in Tasks : FetchUser(t, TRUE)
  \/ \E t \in Tasks, token \in PairTokens :
        local[t].full_reply = EmptyText /\ StreamToken(t, token, FALSE)
  \/ \E t \in Tasks : local[t].full_reply # EmptyText /\ StreamEnd(t)
  \/ \E t \in Tasks : EditFinal(t, TRUE)
  \/ \E t \in Tasks : PresenceIdle(t, TRUE)
  \/ clear_memory_prefix(1)
  \/ clear_memory_slash(1)

SpecPair == Init /\ [][NextPair]_vars

\* ================================================================ properties
\* the awaits between setting ongoing_generation[character] (line 177) and
\* clearing it (lines 204, 214, 228)
GeneratingSection ==
  {"presence_online", "send_start", "fetch_user", "stream", "edit_progress",
   "edit_error", "edit_empty", "edit_final", "send_part"}
InProgress(t) == pc[t] \notin Resting
\* call t returns normally in this step
Returns(t) == InProgress(t) /\ pc'[t] = "done"

\* C1: for every persona, at most one call is in its Generating section
\* (between setting the persona's flag and clearing it) at any instant.
C1_OneGenerationPerPersona ==
  \A c \in Characters :
    Cardinality({t \in Tasks : pc[t] \in GeneratingSection
                               /\ local[t].character = c}) <= 1

\* C1 witness: one call streams for a persona while another call for the
\* same persona is held at the lock.
C1_Contended ==
  \E t1, t2 \in Tasks :
    /\ pc[t1] = "stream" /\ pc[t2] = "wait_lock"
    /\ local[t1].character = local[t2].character

\* C2: no queueing - a call for a persona never waits while another call for
\* that persona is in its Generating section; it gets the busy notice at once.
C2_NoQueueing ==
  \A t1, t2 \in Tasks :
    ~(/\ pc[t1] \in GeneratingSection /\ pc[t2] = "wait_lock"
      /\ local[t1].character = local[t2].character)

\* C3: whenever no call for a persona is in progress (every call for it has
\* returned or raised), the persona's flag is false.
C3_FlagFalseWhenNoCall ==
  \A c \in Characters :
    (\A t \in Tasks : InProgress(t) => local[t].character # c)
      => ~ongoing_generation[c]

\* a call that took the failure or the blank-reply branch returns (so every
\* messaging call it made succeeded)
FailureReturn(t) == Returns(t) /\ local[t].outcome \in {"error", "empty"}
FailureNotice(f) ==
  IF f.outcome = "error" THEN ErrorNotice(f.error) ELSE NoOutputNotice
\* nobody removed the key's records since the call touched it at line 162
Untouched(f) == key(f) \in DOMAIN last_activity'

C5_ReturnedReplyIsStored ==
  [][\A t \in Tasks : Returns(t) /\ local[t].outcome = "success" =>
       LET d == TurnsOf(conversation_memory', heap', key(local[t])) IN
         /\ Len(d) >= 2
         /\ d[Len(d) - 1] = Turn("user", local[t].message)
         /\ d[Len(d)] = Turn("assistant", local[t].full_reply)]_vars

C7_BoundedOldestFirst ==
  [][/\ \A r \in DOMAIN heap' : Len(heap'[r]) <= 2 * MAX_MEMORY_TURNS
     /\ \A t \in Tasks : pc[t] = "stream" /\ pc'[t] = "edit_final" =>
          LET all == heap[local[t].memory]
                       \o <<Turn("user", local[t].message),
                            Turn("assistant", local[t].full_reply)>>
              drop == IF Len(all) > 2 * MAX_MEMORY_TURNS
                      THEN Len(all) - 2 * MAX_MEMORY_TURNS ELSE 0
          IN heap'[local[t].memory] = SubSeq(all, drop + 1, Len(all))]_vars

\* C7 witness: a commit has just filled the key's deque to the bound and the
\* oldest pair of the history is gone.
C7_OldestEvicted ==
  \E t \in Tasks :
    /\ pc[t] = "edit_final"
    /\ key(local[t]) \in DOMAIN conversation_memory
    /\ conversation_memory[key(local[t])] = local[t].memory
    /\ Len(heap[local[t].memory]) = 2 * MAX_MEMORY_TURNS
    /\ heap[local[t].memory][1] = Turn("user", <<2>>)

\* the step is the start of a call (lines 159-177); OwnKey is the key it touches
Called == ncalls' = ncalls + 1
OwnKey(k) == \E t \in Tasks : pc[t] \in Resting /\ InProgress(t)' /\ key(local'[t]) = k

\* C8: right after the sweep of a call, every key whose last activity was
\* strictly older than MEMORY_EXPIRY_SECONDS is absent from both maps (the
\* call's own key is then recorded afresh in last_activity by line 162), and
\* every key whose last activity is within the window is still present, its
\* turns unchanged.
C8_SweepRemovesExactlyTheExpired ==
  [][Called =>
       \A k \in DOMAIN last_activity :
         IF now - last_activity[k] > MEMORY_EXPIRY_SECONDS
         THEN /\ k \notin DOMAIN conversation_memory'
              /\ IF OwnKey(k) THEN last_activity'[k] = now
                 ELSE k \notin DOMAIN last_activity'
         ELSE /\ k \in DOMAIN last_activity'
              /\ last_activity'[k] = IF OwnKey(k) THEN now ELSE last_activity[k]
              /\ (k \in DOMAIN conversation_memory) = (k \in DOMAIN conversation_memory')
              /\ TurnsOf(conversation_memory', heap', k)
                   = TurnsOf(conversation_memory, heap, k)]_vars

\* C8 witness: a call is in progress whose sweep removed a key other than
\* its own.
C8_SweptAnotherKey ==
  \E t \in Tasks :
    /\ InProgress(t)
    /\ \E k \in local[t].expired : k # key(local[t])

\* C9: every key is in both conversation_memory and last_activity or in
\* neither.
C9_MemoryAndActivityPaired ==
  DOMAIN conversation_memory = DOMAIN last_activity

\* C10: after a clearmemory command of a user no key of that user is left in
\* conversation_memory or last_activity, the keys of other users are
\* unchanged, and the reported count is the number of keys removed.
C10_ClearRemovesEveryKeyOfUser ==
  [][\A u \in Users : ClearMemory(u) =>
       /\ \A k \in Keys : k[1] = u =>
            k \notin DOMAIN conversation_memory' /\ k \notin DOMAIN last_activity'
       /\ \A k \in Keys : k[1] # u =>
            /\ (k \in DOMAIN conversation_memory) = (k \in DOMAIN conversation_memory')
            /\ (k \in DOMAIN last_activity) = (k \in DOMAIN last_activity')
            /\ TurnsOf(conversation_memory', heap', k)
                 = TurnsOf(conversation_memory, heap, k)
       /\ characters_cleared(conversation_memory, u)
            = Cardinality((DOMAIN conversation_memory)
                            \ (DOMAIN conversation_memory'))]_vars

\* "\n".join(segments)
RECURSIVE JoinSegments(_)
JoinSegments(ps) ==
  IF ps = <<>> THEN EmptyText
  ELSE IF Len(ps) = 1 THEN ps[1]
  ELSE JoinLine(ps[1], JoinSegments(Tail(ps)))

NoLongParagraph(text) ==
  \A i \in 1..Len(text) : text[i] <= DISCORD_MESSAGE_LIMIT
\* call t has just split its reply (line 222)
HasSplit(t) == pc[t] = "edit_final" /\ local[t].outcome = "success"

\* C11: for every text none of whose paragraphs is longer than
\* DISCORD_MESSAGE_LIMIT, every segment split_message returns is at most the
\* limit long and the segments joined with single newlines are the text.
C11_SplitRoundTrip ==
  \A t \in Tasks : HasSplit(t) /\ NoLongParagraph(local[t].full_reply) =>
    /\ \A i \in 1..Len(local[t].parts) :
         TextLen(local[t].parts[i]) <= DISCORD_MESSAGE_LIMIT
    /\ JoinSegments(local[t].parts) = local[t].full_reply

\* C20: for every text that is not whitespace-only, split_message returns a
\* non-empty list none of whose segments is the empty string.
C20_NoEmptySegment ==
  \A t \in Tasks : HasSplit(t) /\ ~IsBlank(local[t].full_reply) =>
    /\ local[t].parts # <<>>
    /\ \A i \in 1..Len(local[t].parts) : local[t].parts[i] # EmptyText

\* the complete (newline-terminated) lines of the bytes received
RECURSIVE WireLines(_)
WireLines(wire) ==
  LET n == NewlineAt(wire) IN
  IF n = 0 THEN <<>>
  ELSE <<SubSeq(wire, 1, n - 1)>> \o WireLines(SubSeq(wire, n + 1, Len(wire)))

\* what the events on the wire call for: the content fragments of the events
\* before the first completion event or unparseable line, and how the
\* sequence ends ("open": neither has arrived)
RECURSIVE Expected(_)
Expected(lines) ==
  IF lines = <<>> THEN [yields |-> <<>>, end |-> "open"]
  ELSE LET line == Strip(Utf8Decode(Head(lines)))
           data == json_loads(line)
           later == Expected(Tail(lines))
       IN IF line = <<>> THEN later
          ELSE IF ~data.ok THEN [yields |-> <<>>, end |-> "error"]
          ELSE IF data.done THEN [yields |-> <<>>, end |-> "done"]
          ELSE IF data.has_content
               THEN [later EXCEPT !.yields = <<data.content>> \o @]
               ELSE later

\* C12: for every sequence of newline-terminated events, the fragments
\* stream_ollama yields are, in order, the contents of the events before the
\* first completion event; it ends normally only with all of them yielded
\* and no unparseable line met, and raises only on an unparseable line, with
\* nothing yielded from that line on.
C12_YieldsContentsUntilDone ==
  [][\A t \in Tasks : pc[t] = "stream" =>
       LET f == local'[t]
           exp == Expected(WireLines(f.wire))
       IN /\ IsPrefix(f.yielded, exp.yields)
          /\ pc'[t] \in {"edit_empty", "edit_final"} =>
               f.yielded = exp.yields /\ exp.end # "error"
          /\ pc'[t] = "edit_error" =>
               f.yielded = exp.yields /\ exp.end = "error"]_vars

\* call t starts in this step (lines 159-177)
Starts(t) == pc[t] \in Resting /\ InProgress(t)'

\* C13: a call for a persona whose prompt is found, made while no other call
\* for that persona is in progress and the persona's flag is clear, takes the
\* lock and enters its Generating section at once, whatever the other
\* personas are doing; and a call that waits, waits on the lock of its own
\* persona, held or queued for by calls for that persona only.
C13_PersonasIndependent ==
  [][\A t \in Tasks :
       /\ pc[t] = "wait_lock" =>
            LET l == user_locks[local[t].character] IN
              /\ \E i \in 1..Len(l.waiters) : l.waiters[i] = t
              /\ l.owner # NoTask => local[l.owner].character = local[t].character
       /\ (/\ Starts(t) /\ local'[t].outcome # "not_found"
           /\ ~ongoing_generation[local'[t].character]
           /\ \A t2 \in Tasks \ {t} :
                InProgress(t2) => local[t2].character # local'[t].character)
          => /\ pc'[t] = "presence_online"
             /\ ongoing_generation'[local'[t].character]
             /\ user_locks'[local'[t].character].owner = t]_vars

\* C13 witness: generations for two different personas are streaming at the
\* same time.
C13_TwoPersonasGenerating ==
  \E t1, t2 \in Tasks :
    /\ pc[t1] = "stream" /\ pc[t2] = "stream"
    /\ local[t1].character # local[t2].character

\* a send, revise or setPresence call awaited by call t fails in this step
TransportFails(t) ==
  \/ SendNotFound(t, FALSE) \/ SendBusy(t, FALSE) \/ PresenceOnline(t, FALSE)
  \/ SendStart(t, FALSE) \/ EditProgress(t, FALSE) \/ EditError(t, FALSE)
  \/ EditEmpty(t, FALSE) \/ EditFinal(t, FALSE) \/ SendPart(t, FALSE)
  \/ PresenceIdle(t, FALSE)

\* C14: when a send, revise or setPresence call made by a handle_character
\* call fails, the failure leaves the handler in that step: the call raises
\* to its caller and attempts no further transport operation.
C14_TransportFailurePropagates ==
  [][\A t \in Tasks : TransportFails(t) => pc'[t] = "raised"]_vars

\* no call is between a change of a flag and the presence update that
\* follows it
NoPresenceUpdatePending ==
  \A t \in Tasks : pc[t] \notin {"presence_online", "presence_idle"}

\* C15: in every state where no handler is between a flag change and its
\* presence update, the presence indicator is busy (online) exactly when
\* some persona's flag is true.
C15_PresenceTracksFlags ==
  NoPresenceUpdatePending =>
    ((presence = "online") <=> AnyOngoing(ongoing_generation))

\* a step of call t on the busy branch: it enters the branch (from the call
\* or from the lock queue), or its busy notice is sent or fails
EntersBusy(t) == pc[t] \in Resting \cup {"wait_lock"} /\ pc'[t] = "send_busy"
LeavesBusy(t) == pc[t] = "send_busy" /\ pc'[t] # "send_busy"
\* what a busy-branch step must leave alone, the stored turns apart
BusyFrame(t) ==
  /\ ongoing_generation' = ongoing_generation
  /\ presence' = presence
  /\ \A t2 \in Tasks \ {t} : pc'[t2] = pc[t2] /\ local'[t2] = local[t2]
  /\ pc'[t] = "done" =>
       local'[t].sent = <<[op |-> "send", content |-> THINKING_MESSAGE]>>
  /\ pc[t] \notin Resting => local'[t].sent = <<>> \/ pc'[t] = "done"

\* C16 as stated: a call that takes the busy branch sends exactly one busy
\* notice and changes neither the turns stored for any key, nor the flag,
\* nor the presence, nor the frame (accumulator, placeholder) of any other
\* call.
C16_BusyChangesNothing ==
  [][\A t \in Tasks : EntersBusy(t) \/ LeavesBusy(t) =>
       /\ BusyFrame(t)
       /\ \A k \in Keys : TurnsOf(conversation_memory', heap', k)
                            = TurnsOf(conversation_memory, heap, k)]_vars

\* C16 amended: the same, except that the sweep the call ran at line 159
\* removes the turns of the keys that had expired.
C16_BusyChangesOnlyBySweep ==
  [][\A t \in Tasks : EntersBusy(t) \/ LeavesBusy(t) =>
       /\ BusyFrame(t)
       /\ \A k \in Keys :
            TurnsOf(conversation_memory', heap', k)
              = IF Starts(t) /\ k \in local'[t].expired THEN <<>>
                ELSE TurnsOf(conversation_memory, heap, k)]_vars

\* C16 witness: a call is on the busy branch, its sweep having removed a
\* key, while a generation for another persona is streaming.
C16_BusyBesideGeneration ==
  \E t1, t2 \in Tasks :
    /\ pc[t1] = "send_busy" /\ local[t1].expired # {}
    /\ pc[t2] = "stream"

\* the two steps of a call whose persona prompt is not found
EntersNotFound(t) == Starts(t) /\ pc'[t] = "send_not_found"
LeavesNotFound(t) == pc[t] = "send_not_found" /\ pc'[t] # "send_not_found"

\* C17: a call whose persona prompt is not found changes nothing but what
\* the sweep and the touch of lines 159-162 change (expired keys leave both
\* maps, its own key gets the current time): it takes no lock, changes no
\* flag and no presence, sends no placeholder, creates or modifies no memory
\* entry, and when it returns it has made exactly one send, of the notice.
C17_NotFoundOnlySweepsAndTouches ==
  [][\A t \in Tasks :
       /\ EntersNotFound(t) \/ LeavesNotFound(t) =>
            /\ user_locks' = user_locks
            /\ ongoing_generation' = ongoing_generation
            /\ presence' = presence
            /\ local'[t].thinking_msg = NoMessage
            /\ local'[t].memory = NoRef
            /\ DOMAIN conversation_memory' \subseteq DOMAIN conversation_memory
            /\ \A k \in DOMAIN conversation_memory' :
                 TurnsOf(conversation_memory', heap', k)
                   = TurnsOf(conversation_memory, heap, k)
       /\ EntersNotFound(t) =>
            LET old == {k \in DOMAIN last_activity :
                          now - last_activity[k] > MEMORY_EXPIRY_SECONDS}
            IN /\ DOMAIN conversation_memory' = (DOMAIN conversation_memory) \ old
               /\ last_activity' = Put(Pop(last_activity, old), key(local'[t]), now)
               /\ local'[t].sent = <<>>
       /\ LeavesNotFound(t) =>
            /\ conversation_memory' = conversation_memory
            /\ last_activity' = last_activity
            /\ pc'[t] = "done" =>
                 local'[t].sent = <<[op |-> "send", content |-> NotFoundNotice]>>]_vars

\* C17 witness: a call has returned after its one send, of the not-found
\* notice, while turns of an earlier exchange are stored.
C17_NotFoundReported ==
  \E t \in Tasks :
    /\ pc[t] = "done"
    /\ local[t].sent = <<[op |-> "send", content |-> NotFoundNotice]>>
    /\ \E k \in DOMAIN conversation_memory : heap[conversation_memory[k]] # <<>>

\* C18: a persona's lock is only ever held by a call in progress for that
\* persona (it is released on every exit), and under fair scheduling every
\* call in progress eventually returns or raises and every call waiting on
\* a lock eventually acquires it.
C18_EveryCallFinishes ==
  /\ [](\A c \in Characters : user_locks[c].owner # NoTask =>
          /\ InProgress(user_locks[c].owner)
          /\ local[user_locks[c].owner].character = c)
  /\ \A t \in Tasks : InProgress(t) ~> ~InProgress(t)
  /\ \A t \in Tasks : (pc[t] = "wait_lock") ~> (pc[t] # "wait_lock")

\* C18 witness: a call is streaming whose context holds turns that were
\* committed after it was made: it waited on the lock while the call before
\* it generated, and acquired the lock when that call left.
C18_WaiterServed ==
  \E t \in Tasks :
    /\ pc[t] = "stream"
    /\ local[t].turns_before = <<>>
    /\ local[t].messages # <<>>

\* another call for the same key is queued on the lock behind call t
QueuedBehind(t) ==
  \E t2 \in Tasks \ {t} :
    pc[t2] = "wait_lock" /\ key(local[t2]) = key(local[t])

\* C19: a call reads its context while it holds the persona lock, and the
\* context is the turn sequence stored for its key at that moment; and when
\* a call commits while another call for the same key is queued behind it,
\* the stored sequence becomes the committing call's context followed by
\* its pair, so that the queued call will read the earlier pair and the
\* history holds the pairs in service order, none lost or duplicated.
C19_LaterContextHasEarlierPair ==
  [][\A t \in Tasks :
       /\ pc[t] = "fetch_user" /\ pc'[t] = "stream" =>
            /\ user_locks[local[t].character].owner = t
            /\ local'[t].messages
                 = TurnsOf(conversation_memory', heap', key(local[t]))
       /\ pc[t] = "stream" /\ pc'[t] = "edit_final" /\ QueuedBehind(t) =>
            TurnsOf(conversation_memory', heap', key(local[t]))
              = local[t].messages \o <<Turn("user", local[t].message),
                                       Turn("assistant", local[t].full_reply)>>]_vars
====
